---- MODULE Spec2Model ----
(***************************************************************************)
(* django-smartchunks: the template tags of chunks/templatetags/chunks.py. *)
(*                                                                         *)
(* Python values are modelled as follows.  A str is a sequence of          *)
(* one-character strings ('' is << >>), so indexing, slicing and           *)
(* concatenation are computed as Python computes them.  Values of mixed    *)
(* Python type (cache_time is the int 0 or a token; default_chunk is None  *)
(* or a str; context values) are records tagged by a field t.              *)
(***************************************************************************)
EXTENDS Integers, Sequences, FiniteSets, TLC

\* written is history: for each cache entry, the cache_time of the call that
\* set it and the seconds passed since; it is recorded by the renders of
\* SpecStale.  calls holds the renders in flight when renders of several
\* requests interleave (SpecRace).
VARIABLES chunks, inline, cache, context, last, written, calls

vars == <<chunks, inline, cache, context, last, written, calls>>

(***************************************************************************)
(* Bounds of the model.                                                    *)
(***************************************************************************)
\* largest cache_time (seconds) a directive is written with
MaxTTL == 2
\* the cache backend's default timeout, in the model's seconds
DefaultTimeout == 2
\* most arguments after the tag name that a directive is parsed with
MaxArgs == 5
\* renders of {% chunk %} in flight at the same time
NumCalls == 2

(***************************************************************************)
(* Python values.                                                          *)
(***************************************************************************)
PyNone == [t |-> "none"]
PyStr(s) == [t |-> "str", v |-> s]
PyInt(n) == [t |-> "int", v |-> n]
PyObj(o) == [t |-> "obj", v |-> o]
PyDict(d) == [t |-> "dict", v |-> d]
PyRequest == [t |-> "request"]

\* s[i] for a Python index i (negative counts from the end): a str of length 1
At(s, i) == IF i >= 0 THEN <<s[i + 1]>> ELSE <<s[Len(s) + i + 1]>>

\* whether s[i] raises IndexError
IndexOutOfRange(s, i) == IF i >= 0 THEN i >= Len(s) ELSE -i > Len(s)

\* s[1:-1]
Strip(s) == SubSeq(s, 2, Len(s) - 1)

Digits == {"0", "1", "2", "3", "4", "5", "6", "7", "8", "9"}

DigitVal(c) ==
    CASE c = "0" -> 0 [] c = "1" -> 1 [] c = "2" -> 2 [] c = "3" -> 3
      [] c = "4" -> 4 [] c = "5" -> 5 [] c = "6" -> 6 [] c = "7" -> 7
      [] c = "8" -> 8 [] c = "9" -> 9

DigitChar(n) ==
    CASE n = 0 -> "0" [] n = 1 -> "1" [] n = 2 -> "2" [] n = 3 -> "3"
      [] n = 4 -> "4" [] n = 5 -> "5" [] n = 6 -> "6" [] n = 7 -> "7"
      [] n = 8 -> "8" [] n = 9 -> "9"

RECURSIVE DecimalValue(_)
DecimalValue(s) ==
    IF s = << >> THEN 0
    ELSE 10 * DecimalValue(SubSeq(s, 1, Len(s) - 1)) + DigitVal(s[Len(s)])

\* the digits of a decimal literal, after an optional sign
Unsigned(s) == IF s # << >> /\ s[1] \in {"+", "-"} THEN Tail(s) ELSE s

\* whether int(s) accepts the str s (base 10, no surrounding blanks in a token)
IsIntLiteral(s) ==
    /\ Unsigned(s) # << >>
    /\ \A i \in 1..Len(Unsigned(s)) : Unsigned(s)[i] \in Digits

\* int(x) for x the int 0 or a token: [ok |-> TRUE, v |-> n], or ValueError
int(x) ==
    IF x.t = "int" THEN [ok |-> TRUE, v |-> x.v]
    ELSE IF IsIntLiteral(x.v)
         THEN [ok |-> TRUE,
               v |-> IF x.v[1] = "-" THEN 0 - DecimalValue(Unsigned(x.v))
                     ELSE DecimalValue(Unsigned(x.v))]
         ELSE [ok |-> FALSE, v |-> 0]

(***************************************************************************)
(* Exceptions and call results.  A call either returns a value or raises.  *)
(***************************************************************************)
TemplateSyntaxError == "TemplateSyntaxError"
UnboundLocalError == "UnboundLocalError"
IndexError == "IndexError"
ValueError == "ValueError"
VariableDoesNotExist == "VariableDoesNotExist"
ImproperlyConfigured == "ImproperlyConfigured"

Return(v) == [ok |-> TRUE, v |-> v]
Raise(e) == [ok |-> FALSE, exc |-> e]

Quote == {<<"'">>, <<"\"">>}

(***************************************************************************)
(* template.Variable, as the nodes use it: a token that is an integer      *)
(* literal or a string quoted with matching quotes is a literal, a name    *)
(* starting with an underscore is a syntax error, anything else is looked  *)
(* up in the context when resolved.                                        *)
(***************************************************************************)
HasPrivatePart(var) ==
    \/ At(var, 0) = <<"_">>
    \/ \E i \in 1..(Len(var) - 1) : var[i] = "." /\ var[i + 1] = "_"

Variable(var) ==
    IF IsIntLiteral(var)
    THEN Return([t |-> "var", literal |-> PyInt(int(PyStr(var)).v),
                 lookups |-> PyNone])
    ELSE IF At(var, 0) \in Quote /\ At(var, -1) = At(var, 0)
    THEN Return([t |-> "var", literal |-> PyStr(Strip(var)), lookups |-> PyNone])
    ELSE IF HasPrivatePart(var)
    THEN Raise(TemplateSyntaxError)
    ELSE Return([t |-> "var", literal |-> PyNone, lookups |-> PyStr(var)])

\* Variable.resolve(context); a context maps names (Python values) to values
Resolve(variable, ctx) ==
    IF variable.lookups = PyNone
    THEN Return(variable.literal)
    ELSE IF variable.lookups \in DOMAIN ctx
         THEN Return(ctx[variable.lookups])
         ELSE Raise(VariableDoesNotExist)

(***************************************************************************)
(* The nodes the parse functions build.                                    *)
(***************************************************************************)
\* ChunkNode.__init__
ChunkNode(key, cache_time) ==
    Return([cls |-> "ChunkNode", key |-> key, cache_time |-> cache_time])

\* ObjChunkNode.__init__
ObjChunkNode(obj, key, cache_time, default_chunk) ==
    IF ~Variable(obj).ok THEN Raise(Variable(obj).exc)
    ELSE Return([cls |-> "ObjChunkNode", obj |-> Variable(obj).v, key |-> key,
                 cache_time |-> cache_time, default_chunk |-> default_chunk])

\* quotes = ["'\""]: a list holding the one two-character string '"
quotes == {<<"'", "\"">>}

\* ObjChunksListNode.__init__
ObjChunksListNode(obj, context_name) ==
    IF ~Variable(obj).ok THEN Raise(Variable(obj).exc)
    ELSE IF IndexOutOfRange(context_name, 1) THEN Raise(IndexError)
    ELSE IF At(context_name, 1) \in quotes
    THEN IF At(context_name, 1) # At(context_name, -1)
         THEN Raise(TemplateSyntaxError)
         ELSE Return([cls |-> "ObjChunksListNode", obj |-> Variable(obj).v,
                      context_name |-> PyStr(Strip(context_name)),
                      context_name_var |-> PyNone])
    ELSE IF ~Variable(context_name).ok THEN Raise(Variable(context_name).exc)
    ELSE Return([cls |-> "ObjChunksListNode", obj |-> Variable(obj).v,
                 context_name |-> PyNone,
                 context_name_var |-> Variable(context_name).v])

(***************************************************************************)
(* The parse functions.  tokens is token.split_contents(): the tag name    *)
(* followed by the arguments, each a non-empty str.                        *)
(***************************************************************************)
\* key[0] == key[-1] and key[0] in ('"', "'")
IsQuoted(key) == At(key, 0) = At(key, -1) /\ At(key, 0) \in Quote

do_get_chunk(tokens) ==
    IF Len(tokens) < 2 \/ Len(tokens) > 3 THEN Raise(TemplateSyntaxError)
    ELSE LET key == tokens[2]
             cache_time == IF Len(tokens) = 2 THEN PyInt(0) ELSE PyStr(tokens[3])
         IN  IF ~IsQuoted(key) THEN Raise(TemplateSyntaxError)
             ELSE ChunkNode(Strip(key), cache_time)

do_get_object_chunk(tokens) ==
    IF Len(tokens) < 2 \/ Len(tokens) > 5 THEN Raise(TemplateSyntaxError)
    ELSE IF Len(tokens) = 5 /\ ~IsQuoted(tokens[5]) THEN Raise(TemplateSyntaxError)
    \* with two tokens no branch binds key, and the quote check reads it
    ELSE IF Len(tokens) = 2 THEN Raise(UnboundLocalError)
    ELSE LET obj == tokens[2]
             key == tokens[3]
             cache_time == IF Len(tokens) = 3 THEN PyInt(0) ELSE PyStr(tokens[4])
             default_chunk == IF Len(tokens) = 5 THEN PyStr(Strip(tokens[5]))
                              ELSE PyNone
         IN  IF ~IsQuoted(key) THEN Raise(TemplateSyntaxError)
             ELSE ObjChunkNode(obj, Strip(key), cache_time, default_chunk)

do_get_object_chunks_list(tokens) ==
    IF Len(tokens) # 3 THEN Raise(TemplateSyntaxError)
    ELSE ObjChunksListNode(tokens[2], tokens[3])

(***************************************************************************)
(* The collaborators: the content store, the renderer, the owner's         *)
(* capabilities and the cache.                                             *)
(***************************************************************************)
\* CACHE_PREFIX = Chunk.ITEM_CACHE_PREFIX
CACHE_PREFIX == <<"c", "h", "u", "n", "k", "_">>

\* the name under which the request lives in the context
REQUEST == PyStr(<<"r", "e", "q", "u", "e", "s", "t">>)

\* bool(v)
Truthy(v) ==
    CASE v.t = "none" -> FALSE
      [] v.t = "str" -> v.v # << >>
      [] v.t = "int" -> v.v # 0
      [] v.t = "dict" -> DOMAIN v.v # {}
      [] OTHER -> TRUE

\* context.get('request', None)
GetRequest(ctx) == IF REQUEST \in DOMAIN ctx THEN ctx[REQUEST] ELSE PyNone

\* Chunk.objects.get(key=key): the rows found (none: Chunk.DoesNotExist)
ChunkGet(table, key) == {c \in table : c.key = key}

\* InlineChunk.objects.get(content_type=..., object_id=..., key=...)
InlineChunkGet(table, obj, key) ==
    {c \in table : c.content_type = obj.ct /\ c.object_id = obj.id /\ c.key = key}

\* c.build_content(request, context): the rendered text of a chunk
build_content(c) == <<"<">> \o c.content \o <<">">>

\* obj.chunk_item_cache_key(key)
chunk_item_cache_key(obj, key) ==
    CACHE_PREFIX \o <<obj.ct, DigitChar(obj.id), "_">> \o key

\* obj.chunks(request, context): the owner's chunks, rendered, by key
OwnerChunks(table, obj) ==
    LET mine == {c \in table : c.content_type = obj.ct /\ c.object_id = obj.id}
    IN  [k \in {c.key : c \in mine} |->
            build_content(CHOOSE c \in mine : c.key = k)]

\* cache.get(key): the live entry's value, or None
cache_get(store, key) ==
    IF key \in DOMAIN store THEN PyStr(store[key].value) ELSE PyNone

\* the lifetime the backend gives an entry set with this timeout: backends
\* differ on 0 (the default timeout, or expired at once)
Lifetime(timeout, zero_is_default) ==
    IF timeout = 0 /\ zero_is_default THEN DefaultTimeout ELSE timeout

\* cache.set(key, value, timeout)
cache_set(store, key, value, timeout, zero_is_default) ==
    IF Lifetime(timeout, zero_is_default) <= 0
    THEN [k \in DOMAIN store \ {key} |-> store[k]]
    ELSE [k \in DOMAIN store \cup {key} |->
            IF k = key
            THEN [value |-> value, left |-> Lifetime(timeout, zero_is_default)]
            ELSE store[k]]

\* one second passes: each entry has a second less to live, and those with
\* none left go
Aged(store) ==
    [k \in {j \in DOMAIN store : store[j].left > 1} |->
        [store[k] EXCEPT !.left = @ - 1]]

(***************************************************************************)
(* Rendering.  A render yields out (the return value or the exception),    *)
(* the collaborator calls it made (log), the cache.set it made (set) and   *)
(* the cache afterwards.                                                   *)
(***************************************************************************)
NoSet == [t |-> "none"]
SetCall(key, value, timeout) ==
    [t |-> "set", key |-> key, value |-> value, timeout |-> timeout]

Outcome(out, log, set, store) ==
    [out |-> out, log |-> log, set |-> set, cache |-> store]

\* the tail of both renders, returning '' when the context has no request
RenderFound_SilentWithoutRequest(node, ctx, store, cache_key, c, log, zero_is_default) ==
    IF ~Truthy(GetRequest(ctx))
    THEN Outcome(Return(<< >>), log, NoSet, store)
    ELSE IF ~int(node.cache_time).ok
    THEN Outcome(Raise(ValueError), log \o <<"build_content">>, NoSet, store)
    ELSE Outcome(Return(build_content(c)),
                 log \o <<"build_content", "cache.set">>,
                 SetCall(cache_key, build_content(c), int(node.cache_time).v),
                 cache_set(store, cache_key, build_content(c),
                           int(node.cache_time).v, zero_is_default))

\* the tail of both renders, setting the cache entry before it checks for the
\* request
RenderFound_SetsBeforeRequestCheck(node, ctx, store, cache_key, c, log, zero_is_default) ==
    IF ~int(node.cache_time).ok
    THEN Outcome(Raise(ValueError), log \o <<"build_content">>, NoSet, store)
    ELSE IF ~Truthy(GetRequest(ctx))
    THEN Outcome(Raise(ImproperlyConfigured), log \o <<"cache.set">>,
                 SetCall(cache_key, build_content(c), int(node.cache_time).v),
                 cache_set(store, cache_key, build_content(c),
                           int(node.cache_time).v, zero_is_default))
    ELSE Outcome(Return(build_content(c)),
                 log \o <<"build_content", "cache.set">>,
                 SetCall(cache_key, build_content(c), int(node.cache_time).v),
                 cache_set(store, cache_key, build_content(c),
                           int(node.cache_time).v, zero_is_default))

\* the tail of both renders, setting the entry with a timeout two seconds
\* longer than cache_time
RenderFound_LongerTimeout(node, ctx, store, cache_key, c, log, zero_is_default) ==
    IF ~Truthy(GetRequest(ctx))
    THEN Outcome(Raise(ImproperlyConfigured), log, NoSet, store)
    ELSE IF ~int(node.cache_time).ok
    THEN Outcome(Raise(ValueError), log \o <<"build_content">>, NoSet, store)
    ELSE Outcome(Return(build_content(c)),
                 log \o <<"build_content", "cache.set">>,
                 SetCall(cache_key, build_content(c), int(node.cache_time).v),
                 cache_set(store, cache_key, build_content(c),
                           int(node.cache_time).v + 2, zero_is_default))

\* the tail of both renders, caching '' when the context has no request
RenderFound_CachesEmptyOnError(node, ctx, store, cache_key, c, log, zero_is_default) ==
    IF ~Truthy(GetRequest(ctx))
    THEN Outcome(Raise(ImproperlyConfigured), log, NoSet,
                 cache_set(store, cache_key, << >>, 1, zero_is_default))
    ELSE IF ~int(node.cache_time).ok
    THEN Outcome(Raise(ValueError), log \o <<"build_content">>, NoSet, store)
    ELSE Outcome(Return(build_content(c)),
                 log \o <<"build_content", "cache.set">>,
                 SetCall(cache_key, build_content(c), int(node.cache_time).v),
                 cache_set(store, cache_key, build_content(c),
                           int(node.cache_time).v, zero_is_default))

\* the tail of both renders, from the found chunk c on: request check,
\* build_content, cache.set(cache_key, content, int(self.cache_time))
RenderFound(node, ctx, store, cache_key, c, log, zero_is_default) ==
    IF ~Truthy(GetRequest(ctx))
    THEN Outcome(Raise(ImproperlyConfigured), log, NoSet, store)
    ELSE IF ~int(node.cache_time).ok
    THEN Outcome(Raise(ValueError), log \o <<"build_content">>, NoSet, store)
    ELSE Outcome(Return(build_content(c)),
                 log \o <<"build_content", "cache.set">>,
                 SetCall(cache_key, build_content(c), int(node.cache_time).v),
                 cache_set(store, cache_key, build_content(c),
                           int(node.cache_time).v, zero_is_default))

\* ChunkNode.render with the cache key built without CACHE_PREFIX
ChunkNodeRender_BareKey(node, ctx, store, table, zero_is_default) ==
    LET cache_key == node.key
        content == cache_get(store, cache_key)
        found == ChunkGet(table, node.key)
    IN  IF content # PyNone
        THEN Outcome(Return(content.v), <<"cache.get">>, NoSet, store)
        ELSE IF found = {}
        THEN Outcome(Return(<< >>), <<"cache.get", "Chunk.get">>, NoSet, store)
        ELSE RenderFound(node, ctx, store, cache_key, CHOOSE c \in found : TRUE,
                         <<"cache.get", "Chunk.get">>, zero_is_default)

\* ChunkNode.render that caches the empty result of a chunk that is not found
ChunkNodeRender_CachesNotFound(node, ctx, store, table, zero_is_default) ==
    LET cache_key == CACHE_PREFIX \o node.key
        content == cache_get(store, cache_key)
        found == ChunkGet(table, node.key)
    IN  IF content # PyNone
        THEN Outcome(Return(content.v), <<"cache.get">>, NoSet, store)
        ELSE IF found = {}
        THEN Outcome(Return(<< >>), <<"cache.get", "Chunk.get", "cache.set">>,
                     SetCall(cache_key, << >>, 1),
                     cache_set(store, cache_key, << >>, 1, zero_is_default))
        ELSE RenderFound(node, ctx, store, cache_key, CHOOSE c \in found : TRUE,
                         <<"cache.get", "Chunk.get">>, zero_is_default)

\* ChunkNode.render
ChunkNodeRender(node, ctx, store, table, zero_is_default) ==
    LET cache_key == CACHE_PREFIX \o node.key
        content == cache_get(store, cache_key)
        found == ChunkGet(table, node.key)
    IN  IF content # PyNone
        THEN Outcome(Return(content.v), <<"cache.get">>, NoSet, store)
        ELSE IF found = {}
        THEN Outcome(Return(<< >>), <<"cache.get", "Chunk.get">>, NoSet, store)
        ELSE RenderFound(node, ctx, store, cache_key, CHOOSE c \in found : TRUE,
                         <<"cache.get", "Chunk.get">>, zero_is_default)

AttributeError == "AttributeError"

\* ObjChunkNode.render that tries the default chunk before the InlineChunk
ObjChunkNodeResolved_DefaultFirst(node, ctx, store, table, inl, obj, zero_is_default) ==
    LET cache_key == chunk_item_cache_key(obj, node.key)
        content == cache_get(store, cache_key)
        found == InlineChunkGet(inl, obj, node.key)
        fallback == IF Truthy(node.default_chunk)
                    THEN ChunkGet(table, node.default_chunk.v) ELSE {}
    IN  IF content # PyNone
        THEN Outcome(Return(content.v), <<"cache.get">>, NoSet, store)
        ELSE IF fallback # {}
        THEN RenderFound(node, ctx, store, cache_key,
                         CHOOSE c \in fallback : TRUE,
                         <<"cache.get", "Chunk.get">>, zero_is_default)
        ELSE IF found # {}
        THEN RenderFound(node, ctx, store, cache_key, CHOOSE c \in found : TRUE,
                         <<"cache.get", "Chunk.get", "InlineChunk.get">>,
                         zero_is_default)
        ELSE Outcome(Return(<< >>),
                     <<"cache.get", "Chunk.get", "InlineChunk.get">>, NoSet, store)

\* ObjChunkNode.render with the default chunk cached under the global key of
\* that chunk
ObjChunkNodeResolved_GlobalKey(node, ctx, store, table, inl, obj, zero_is_default) ==
    LET cache_key == chunk_item_cache_key(obj, node.key)
        content == cache_get(store, cache_key)
        found == InlineChunkGet(inl, obj, node.key)
        fallback == ChunkGet(table, node.default_chunk.v)
    IN  IF content # PyNone
        THEN Outcome(Return(content.v), <<"cache.get">>, NoSet, store)
        ELSE IF found # {}
        THEN RenderFound(node, ctx, store, cache_key, CHOOSE c \in found : TRUE,
                         <<"cache.get", "InlineChunk.get">>, zero_is_default)
        ELSE IF ~Truthy(node.default_chunk)
        THEN Outcome(Return(<< >>), <<"cache.get", "InlineChunk.get">>, NoSet,
                     store)
        ELSE IF fallback = {}
        THEN Outcome(Return(<< >>),
                     <<"cache.get", "InlineChunk.get", "Chunk.get">>, NoSet, store)
        ELSE RenderFound(node, ctx, store, CACHE_PREFIX \o node.default_chunk.v,
                         CHOOSE c \in fallback : TRUE,
                         <<"cache.get", "InlineChunk.get", "Chunk.get">>,
                         zero_is_default)

\* ObjChunkNode.render that caches the empty result when no chunk is found
ObjChunkNodeResolved_CachesNotFound(node, ctx, store, table, inl, obj, zero_is_default) ==
    LET cache_key == chunk_item_cache_key(obj, node.key)
        content == cache_get(store, cache_key)
        found == InlineChunkGet(inl, obj, node.key)
        fallback == ChunkGet(table, node.default_chunk.v)
    IN  IF content # PyNone
        THEN Outcome(Return(content.v), <<"cache.get">>, NoSet, store)
        ELSE IF found # {}
        THEN RenderFound(node, ctx, store, cache_key, CHOOSE c \in found : TRUE,
                         <<"cache.get", "InlineChunk.get">>, zero_is_default)
        ELSE IF ~Truthy(node.default_chunk)
        THEN Outcome(Return(<< >>),
                     <<"cache.get", "InlineChunk.get", "cache.set">>,
                     SetCall(cache_key, << >>, 1),
                     cache_set(store, cache_key, << >>, 1, zero_is_default))
        ELSE IF fallback = {}
        THEN Outcome(Return(<< >>),
                     <<"cache.get", "InlineChunk.get", "Chunk.get">>, NoSet, store)
        ELSE RenderFound(node, ctx, store, cache_key,
                         CHOOSE c \in fallback : TRUE,
                         <<"cache.get", "InlineChunk.get", "Chunk.get">>,
                         zero_is_default)

\* ObjChunkNode.render that sets the entry again, with the call's cache_time,
\* when it is answered from the cache
ObjChunkNodeResolved_RefreshOnHit(node, ctx, store, table, inl, obj, zero_is_default) ==
    LET cache_key == chunk_item_cache_key(obj, node.key)
        content == cache_get(store, cache_key)
        found == InlineChunkGet(inl, obj, node.key)
        fallback == ChunkGet(table, node.default_chunk.v)
    IN  IF content # PyNone
        THEN IF int(node.cache_time).ok
             THEN Outcome(Return(content.v), <<"cache.get", "cache.set">>,
                          SetCall(cache_key, content.v, int(node.cache_time).v),
                          cache_set(store, cache_key, content.v,
                                    int(node.cache_time).v, zero_is_default))
             ELSE Outcome(Return(content.v), <<"cache.get">>, NoSet, store)
        ELSE IF found # {}
        THEN RenderFound(node, ctx, store, cache_key, CHOOSE c \in found : TRUE,
                         <<"cache.get", "InlineChunk.get">>, zero_is_default)
        ELSE IF ~Truthy(node.default_chunk)
        THEN Outcome(Return(<< >>), <<"cache.get", "InlineChunk.get">>, NoSet,
                     store)
        ELSE IF fallback = {}
        THEN Outcome(Return(<< >>),
                     <<"cache.get", "InlineChunk.get", "Chunk.get">>, NoSet, store)
        ELSE RenderFound(node, ctx, store, cache_key,
                         CHOOSE c \in fallback : TRUE,
                         <<"cache.get", "InlineChunk.get", "Chunk.get">>,
                         zero_is_default)

\* ObjChunkNode.render with the default_chunk made part of the cache key
ObjChunkNodeResolved_KeyedByDefault(node, ctx, store, table, inl, obj, zero_is_default) ==
    LET cache_key == IF Truthy(node.default_chunk)
                     THEN chunk_item_cache_key(obj, node.key)
                            \o <<"_">> \o node.default_chunk.v
                     ELSE chunk_item_cache_key(obj, node.key)
        content == cache_get(store, cache_key)
        found == InlineChunkGet(inl, obj, node.key)
        fallback == ChunkGet(table, node.default_chunk.v)
    IN  IF content # PyNone
        THEN Outcome(Return(content.v), <<"cache.get">>, NoSet, store)
        ELSE IF found # {}
        THEN RenderFound(node, ctx, store, cache_key, CHOOSE c \in found : TRUE,
                         <<"cache.get", "InlineChunk.get">>, zero_is_default)
        ELSE IF ~Truthy(node.default_chunk)
        THEN Outcome(Return(<< >>), <<"cache.get", "InlineChunk.get">>, NoSet,
                     store)
        ELSE IF fallback = {}
        THEN Outcome(Return(<< >>),
                     <<"cache.get", "InlineChunk.get", "Chunk.get">>, NoSet, store)
        ELSE RenderFound(node, ctx, store, cache_key,
                         CHOOSE c \in fallback : TRUE,
                         <<"cache.get", "InlineChunk.get", "Chunk.get">>,
                         zero_is_default)

\* ObjChunkNode.render, from the resolved owner obj on
ObjChunkNodeResolved(node, ctx, store, table, inl, obj, zero_is_default) ==
    LET cache_key == chunk_item_cache_key(obj, node.key)
        content == cache_get(store, cache_key)
        found == InlineChunkGet(inl, obj, node.key)
        fallback == ChunkGet(table, node.default_chunk.v)
    IN  IF content # PyNone
        THEN Outcome(Return(content.v), <<"cache.get">>, NoSet, store)
        ELSE IF found # {}
        THEN RenderFound(node, ctx, store, cache_key, CHOOSE c \in found : TRUE,
                         <<"cache.get", "InlineChunk.get">>, zero_is_default)
        ELSE IF ~Truthy(node.default_chunk)
        THEN Outcome(Return(<< >>), <<"cache.get", "InlineChunk.get">>, NoSet,
                     store)
        ELSE IF fallback = {}
        THEN Outcome(Return(<< >>),
                     <<"cache.get", "InlineChunk.get", "Chunk.get">>, NoSet, store)
        ELSE RenderFound(node, ctx, store, cache_key,
                         CHOOSE c \in fallback : TRUE,
                         <<"cache.get", "InlineChunk.get", "Chunk.get">>,
                         zero_is_default)

\* ObjChunkNode.render that falls back to the default Chunk when the owner
\* does not resolve
ObjChunkNodeRender_DefaultForUnresolved(node, ctx, store, table, inl, zero_is_default) ==
    LET obj == Resolve(node.obj, ctx)
        fallback == IF Truthy(node.default_chunk)
                    THEN ChunkGet(table, node.default_chunk.v) ELSE {}
    IN  IF ~obj.ok
        THEN IF fallback = {}
             THEN Outcome(Return(<< >>), << >>, NoSet, store)
             ELSE RenderFound(node, ctx, store,
                              CACHE_PREFIX \o node.default_chunk.v,
                              CHOOSE c \in fallback : TRUE, <<"Chunk.get">>,
                              zero_is_default)
        ELSE IF obj.v.t # "obj"
        THEN Outcome(Raise(AttributeError), << >>, NoSet, store)
        ELSE ObjChunkNodeResolved(node, ctx, store, table, inl, obj.v.v,
                                  zero_is_default)

\* ObjChunkNode.render
ObjChunkNodeRender(node, ctx, store, table, inl, zero_is_default) ==
    LET obj == Resolve(node.obj, ctx)
    IN  IF ~obj.ok THEN Outcome(Return(<< >>), << >>, NoSet, store)
        \* a value that is no chunk owner has no chunk_item_cache_key
        ELSE IF obj.v.t # "obj"
        THEN Outcome(Raise(AttributeError), << >>, NoSet, store)
        ELSE ObjChunkNodeResolved(node, ctx, store, table, inl, obj.v.v,
                                  zero_is_default)

\* the name taken to be the variable's own name instead of its value
ContextName_VariableName(node, ctx) ==
    IF node.context_name_var # PyNone
    THEN IF node.context_name_var.lookups = PyNone
         THEN Resolve(node.context_name_var, ctx)
         ELSE IF node.context_name_var.lookups \in DOMAIN ctx
              THEN Return(node.context_name_var.lookups)
              ELSE Raise(VariableDoesNotExist)
    ELSE IF Truthy(node.context_name) THEN Return(node.context_name)
    ELSE Return(PyStr(<< >>))

\* the name ObjChunksListNode.render binds the chunks under
ContextName(node, ctx) ==
    IF node.context_name_var # PyNone
    THEN Resolve(node.context_name_var, ctx)
    ELSE IF Truthy(node.context_name) THEN Return(node.context_name)
    ELSE Return(PyStr(<< >>))

\* context[context_name] = chunks
Bind(ctx, name, value) ==
    [n \in DOMAIN ctx \cup {name} |-> IF n = name THEN value ELSE ctx[n]]

\* ObjChunksListNode.render that caches the mapping it binds
ObjChunksListNodeRender_CachesMapping(node, ctx, inl, store) ==
    LET context_name == ContextName(node, ctx)
        obj == Resolve(node.obj, ctx)
    IN  IF ~context_name.ok
        THEN [out |-> Raise(context_name.exc), log |-> << >>, context |-> ctx,
              cache |-> store]
        ELSE IF ~obj.ok
        THEN [out |-> Return(<< >>), log |-> << >>,
              context |-> Bind(ctx, context_name.v, PyDict(<< >>)),
              cache |-> store]
        ELSE IF ~Truthy(GetRequest(ctx))
        THEN [out |-> Raise(ImproperlyConfigured), log |-> << >>,
              context |-> ctx, cache |-> store]
        ELSE IF obj.v.t # "obj"
        THEN [out |-> Raise(AttributeError), log |-> << >>, context |-> ctx,
              cache |-> store]
        ELSE [out |-> Return(<< >>), log |-> <<"obj.chunks">>,
              context |-> Bind(ctx, context_name.v,
                               PyDict(OwnerChunks(inl, obj.v.v))),
              cache |-> [k \in DOMAIN store \cup {CACHE_PREFIX} |->
                            [value |-> << >>, left |-> 1]]]

\* ObjChunksListNode.render: out, the calls made (log), the context and the
\* cache afterwards; the render calls neither cache.get nor cache.set
ObjChunksListNodeRender(node, ctx, inl, store) ==
    LET context_name == ContextName(node, ctx)
        obj == Resolve(node.obj, ctx)
    IN  IF ~context_name.ok
        THEN [out |-> Raise(context_name.exc), log |-> << >>, context |-> ctx,
              cache |-> store]
        ELSE IF ~obj.ok
        THEN [out |-> Return(<< >>), log |-> << >>,
              context |-> Bind(ctx, context_name.v, PyDict(<< >>)),
              cache |-> store]
        ELSE IF ~Truthy(GetRequest(ctx))
        THEN [out |-> Raise(ImproperlyConfigured), log |-> << >>,
              context |-> ctx, cache |-> store]
        ELSE IF obj.v.t # "obj"
        THEN [out |-> Raise(AttributeError), log |-> << >>, context |-> ctx,
              cache |-> store]
        ELSE [out |-> Return(<< >>), log |-> <<"obj.chunks">>,
              context |-> Bind(ctx, context_name.v,
                               PyDict(OwnerChunks(inl, obj.v.v))),
              cache |-> store]

(***************************************************************************)
(* The values the model draws its inputs from.                             *)
(***************************************************************************)
Contents == {<<"x">>, <<"y">>}
ChunkKeys == {<<"a">>, <<"b">>}
InlineKeys == {<<"a">>}
Owners == {[ct |-> "A", id |-> 1], [ct |-> "B", id |-> 1]}

TAG_CHUNK == <<"c", "h", "u", "n", "k">>
TAG_OBJECT_CHUNK == <<"o", "b", "j", "e", "c", "t", "_", "c", "h", "u", "n", "k">>
TAG_LIST == <<"o", "b", "j", "e", "c", "t", "_", "c", "h", "u", "n", "k", "s",
              "_", "l", "i", "s", "t">>

\* the context variables the templates use
OBJ == <<"o", "b", "j">>
NM == <<"n", "m">>
TargetNames == {<<"t", "1">>, <<"t", "2">>}

SingleQuoted(s) == <<"'">> \o s \o <<"'">>
DoubleQuoted(s) == <<"\"">> \o s \o <<"\"">>

\* cache_time tokens: 0..MaxTTL, and one that is no integer
TTLTokens == {<<DigitChar(i)>> : i \in 0..MaxTTL} \cup {<<"x">>}

\* {% chunk "<key>" [cache_time] %}
ChunkDirectives ==
    LET keys == {SingleQuoted(<<"a">>), DoubleQuoted(<<"b">>)}
    IN  {<<TAG_CHUNK, k>> : k \in keys}
        \cup {<<TAG_CHUNK, k, t>> : k \in keys, t \in TTLTokens}

\* {% object_chunk obj "<key>" [cache_time] ["<default_key>"] %}
ObjectChunkDirectives ==
    LET key == DoubleQuoted(<<"a">>)
        defaults == {SingleQuoted(<<"a">>), SingleQuoted(<<"b">>)}
    IN  {<<TAG_OBJECT_CHUNK, OBJ, key>>}
        \cup {<<TAG_OBJECT_CHUNK, OBJ, key, t>> : t \in TTLTokens}
        \cup {<<TAG_OBJECT_CHUNK, OBJ, key, t, d>> : t \in TTLTokens, d \in defaults}

\* {% object_chunks_list obj <target_name> %}
ListDirectives ==
    {<<TAG_LIST, OBJ, n>> :
        n \in {SingleQuoted(<<"t", "1">>), DoubleQuoted(<<"t", "2">>), NM}}

\* argument tokens the parse functions are tried on: quoted keys, names, a
\* lone quote character, a token quoted with two different characters
ParsePool ==
    {SingleQuoted(<<"a">>), DoubleQuoted(<<"b">>), OBJ, <<"n">>, <<"'">>,
     <<"'", "a", "\"">>}

TokenLists(tag) ==
    {<<tag>> \o args : args \in UNION {[1..n -> ParsePool] : n \in 0..MaxArgs}}

\* the contexts a request can render a template with
RequestContexts == {<< >>, [n \in {REQUEST} |-> PyRequest]}

WithVar(ctxs, name, values) ==
    ctxs \cup {Bind(c, PyStr(name), v) : c \in ctxs, v \in values}

ObjectContexts == WithVar(RequestContexts, OBJ, {PyObj(o) : o \in Owners})

ListContexts == WithVar(ObjectContexts, NM, {PyStr(n) : n \in TargetNames})

(***************************************************************************)
(* The state machine.  Execution is single-threaded and synchronous: a     *)
(* directive runs to completion, last holds the call and its result until  *)
(* the template engine has taken it (Done), and then the next operation    *)
(* starts.                                                                 *)
(***************************************************************************)
Idle == [op |-> "idle"]

Init ==
    /\ chunks = {}
    /\ inline = {}
    /\ cache = << >>
    /\ context = << >>
    /\ last = Idle
    /\ written = << >>
    /\ calls = << >>

\* the authoring system saves (creates or edits) a Chunk
SaveChunk(k, c) ==
    /\ last = Idle
    /\ [key |-> k, content |-> c] \notin chunks
    /\ chunks' = {r \in chunks : r.key # k} \cup {[key |-> k, content |-> c]}
    /\ last' = Idle
    /\ UNCHANGED <<written, calls, inline, cache, context>>

DeleteChunk(k) ==
    /\ last = Idle
    /\ ChunkGet(chunks, k) # {}
    /\ chunks' = {r \in chunks : r.key # k}
    /\ last' = Idle
    /\ UNCHANGED <<written, calls, inline, cache, context>>

SaveInlineChunk(o, k, c) ==
    LET row == [content_type |-> o.ct, object_id |-> o.id, key |-> k,
                content |-> c]
    IN  /\ last = Idle
        /\ row \notin inline
        /\ inline' = (inline \ InlineChunkGet(inline, o, k)) \cup {row}
        /\ last' = Idle
        /\ UNCHANGED <<written, calls, chunks, cache, context>>

DeleteInlineChunk(o, k) ==
    /\ last = Idle
    /\ InlineChunkGet(inline, o, k) # {}
    /\ inline' = inline \ InlineChunkGet(inline, o, k)
    /\ last' = Idle
    /\ UNCHANGED <<written, calls, chunks, cache, context>>

\* a second passes
Tick ==
    /\ last = Idle
    /\ DOMAIN cache # {}
    /\ cache' = Aged(cache)
    /\ last' = Idle
    /\ UNCHANGED <<written, calls, chunks, inline, context>>

\* a new request renders with its own context
NewContext(ctxs) ==
    /\ last = Idle
    /\ context' \in ctxs \ {context}
    /\ last' = Idle
    /\ UNCHANGED <<written, calls, chunks, inline, cache>>

Rendered(tokens, node, r) ==
    [op |-> "render", tokens |-> tokens, node |-> node, out |-> r.out,
     log |-> r.log, set |-> r.set]

\* {% chunk ... %} is parsed and rendered
RenderChunk(directives) ==
    \E tokens \in directives, zero_is_default \in BOOLEAN :
        LET node == do_get_chunk(tokens).v
            r == ChunkNodeRender(node, context, cache, chunks, zero_is_default)
        IN  /\ last = Idle
            /\ do_get_chunk(tokens).ok
            /\ cache' = r.cache
            /\ last' = Rendered(tokens, node, r)
            /\ UNCHANGED <<written, calls, chunks, inline, context>>

\* {% object_chunk ... %} is parsed and rendered
RenderObjectChunk(directives) ==
    \E tokens \in directives, zero_is_default \in BOOLEAN :
        LET node == do_get_object_chunk(tokens).v
            r == ObjChunkNodeRender(node, context, cache, chunks, inline,
                                    zero_is_default)
        IN  /\ last = Idle
            /\ do_get_object_chunk(tokens).ok
            /\ cache' = r.cache
            /\ last' = Rendered(tokens, node, r)
            /\ UNCHANGED <<written, calls, chunks, inline, context>>

\* {% object_chunks_list ... %} is parsed and rendered
RenderList(directives) ==
    \E tokens \in directives :
        LET node == do_get_object_chunks_list(tokens).v
            r == ObjChunksListNodeRender(node, context, inline, cache)
        IN  /\ last = Idle
            /\ do_get_object_chunks_list(tokens).ok
            /\ context' = r.context
            /\ cache' = r.cache
            /\ last' = Rendered(tokens, node,
                                [out |-> r.out, log |-> r.log, set |-> NoSet])
            /\ UNCHANGED <<written, calls, chunks, inline>>

Parsed(tokens, res) == [op |-> "parse", tokens |-> tokens, res |-> res]

ParseChunk ==
    /\ last = Idle
    /\ \E tokens \in TokenLists(TAG_CHUNK) :
          last' = Parsed(tokens, do_get_chunk(tokens))
    /\ UNCHANGED <<written, calls, chunks, inline, cache, context>>

ParseObjectChunk ==
    /\ last = Idle
    /\ \E tokens \in TokenLists(TAG_OBJECT_CHUNK) :
          last' = Parsed(tokens, do_get_object_chunk(tokens))
    /\ UNCHANGED <<written, calls, chunks, inline, cache, context>>

ParseList ==
    /\ last = Idle
    /\ \E tokens \in TokenLists(TAG_LIST) :
          last' = Parsed(tokens, do_get_object_chunks_list(tokens))
    /\ UNCHANGED <<written, calls, chunks, inline, cache, context>>

\* the template engine takes the result of the call
Done ==
    /\ last # Idle
    /\ last' = Idle
    /\ UNCHANGED <<written, calls, chunks, inline, cache, context>>

Store(keys, contents) ==
    \/ \E k \in keys, c \in contents : SaveChunk(k, c)
    \/ \E k \in keys : DeleteChunk(k)

InlineStore(owners, keys, contents) ==
    \/ \E o \in owners, k \in keys, c \in contents : SaveInlineChunk(o, k, c)
    \/ \E o \in owners, k \in keys : DeleteInlineChunk(o, k)

\* the whole tag library
Next ==
    \/ Store(ChunkKeys, Contents)
    \/ InlineStore(Owners, InlineKeys, Contents)
    \/ Tick
    \/ NewContext(ListContexts)
    \/ RenderChunk(ChunkDirectives)
    \/ RenderObjectChunk(ObjectChunkDirectives)
    \/ RenderList(ListDirectives)
    \/ ParseChunk
    \/ ParseObjectChunk
    \/ ParseList
    \/ Done

Spec == Init /\ [][Next]_vars

\* the parse functions alone
NextParse == ParseChunk \/ ParseObjectChunk \/ ParseList \/ Done

SpecParse == Init /\ [][NextParse]_vars

\* {% chunk %} and its collaborators
NextChunk ==
    \/ Store(ChunkKeys, Contents)
    \/ Tick
    \/ NewContext(RequestContexts)
    \/ RenderChunk(ChunkDirectives)
    \/ Done

SpecChunk == Init /\ [][NextChunk]_vars

\* {% object_chunk %} and its collaborators
NextObjectChunk ==
    \/ Store(ChunkKeys, Contents)
    \/ InlineStore(Owners, InlineKeys, Contents)
    \/ Tick
    \/ NewContext(ObjectContexts)
    \/ RenderObjectChunk(ObjectChunkDirectives)
    \/ Done

SpecObjectChunk == Init /\ [][NextObjectChunk]_vars

\* {% object_chunks_list %} and its collaborators
NextList ==
    \/ InlineStore(Owners, InlineKeys, Contents)
    \/ NewContext(ListContexts)
    \/ RenderList(ListDirectives)
    \/ Done

SpecList == Init /\ [][NextList]_vars

(***************************************************************************)
(* The three directives in one template, over a small vocabulary: one      *)
(* chunk key, one owner, one target name, cache_time absent, 1 or no       *)
(* integer.                                                                *)
(***************************************************************************)
TheOwner == CHOOSE o \in Owners : o.ct = "A"
TheKey == CHOOSE k \in InlineKeys : TRUE
TheTarget == CHOOSE n \in TargetNames : n[2] = "1"

TagChunkDirectives ==
    {d \in ChunkDirectives :
        /\ Strip(d[2]) = TheKey
        /\ Len(d) = 3 => d[3] \in {<<"1">>, <<"x">>}}

TagObjectChunkDirectives ==
    {d \in ObjectChunkDirectives :
        /\ Len(d) >= 4 => d[4] \in {<<"1">>, <<"x">>}
        /\ Len(d) = 5 => Strip(d[5]) = TheKey}

TagListDirectives ==
    {d \in ListDirectives : d[3] \in {SingleQuoted(TheTarget), NM}}

TagContexts ==
    WithVar(WithVar(RequestContexts, OBJ, {PyObj(TheOwner)}),
            NM, {PyStr(TheTarget)})

NextTags ==
    \/ Store({TheKey}, {<<"x">>})
    \/ InlineStore({TheOwner}, {TheKey}, {<<"y">>})
    \/ Tick
    \/ NewContext(TagContexts)
    \/ RenderChunk(TagChunkDirectives)
    \/ RenderObjectChunk(TagObjectChunkDirectives)
    \/ RenderList(TagListDirectives)
    \/ Done

SpecTags == Init /\ [][NextTags]_vars

(***************************************************************************)
(* {% chunk %} and {% object_chunk %} for one key and one owner, with the  *)
(* history of the cache entries recorded in written.                       *)
(***************************************************************************)
StaleContexts == WithVar(RequestContexts, OBJ, {PyObj(TheOwner)})

StaleChunkDirectives == {d \in ChunkDirectives : Strip(d[2]) = TheKey}

StaleObjectChunkDirectives ==
    {d \in ObjectChunkDirectives : Len(d) = 5 => Strip(d[5]) = TheKey}

\* the history after a render: the entry it set is new, set by a call with
\* this cache_time; an entry the backend did not keep has no history
Recorded(history, call, store) ==
    [k \in DOMAIN store |->
        IF call.set # NoSet /\ k = call.set.key
        THEN [timeout |-> int(call.node.cache_time).v, age |-> 0]
        ELSE history[k]]

TickRecorded ==
    /\ last = Idle
    /\ DOMAIN cache # {}
    /\ cache' = Aged(cache)
    /\ written' = [k \in DOMAIN cache' |-> [written[k] EXCEPT !.age = @ + 1]]
    /\ last' = Idle
    /\ UNCHANGED <<calls, chunks, inline, context>>

RenderChunkRecorded(directives) ==
    \E tokens \in directives, zero_is_default \in BOOLEAN :
        LET node == do_get_chunk(tokens).v
            r == ChunkNodeRender(node, context, cache, chunks, zero_is_default)
        IN  /\ last = Idle
            /\ do_get_chunk(tokens).ok
            /\ cache' = r.cache
            /\ last' = Rendered(tokens, node, r)
            /\ written' = Recorded(written, last', cache')
            /\ UNCHANGED <<calls, chunks, inline, context>>

RenderObjectChunkRecorded(directives) ==
    \E tokens \in directives, zero_is_default \in BOOLEAN :
        LET node == do_get_object_chunk(tokens).v
            r == ObjChunkNodeRender(node, context, cache, chunks, inline,
                                    zero_is_default)
        IN  /\ last = Idle
            /\ do_get_object_chunk(tokens).ok
            /\ cache' = r.cache
            /\ last' = Rendered(tokens, node, r)
            /\ written' = Recorded(written, last', cache')
            /\ UNCHANGED <<calls, chunks, inline, context>>

NextStale ==
    \/ Store({TheKey}, Contents)
    \/ InlineStore({TheOwner}, {TheKey}, Contents)
    \/ TickRecorded
    \/ NewContext(StaleContexts)
    \/ RenderChunkRecorded(StaleChunkDirectives)
    \/ RenderObjectChunkRecorded(StaleObjectChunkDirectives)
    \/ Done

SpecStale == Init /\ [][NextStale]_vars

(***************************************************************************)
(* ChunkNode.render one collaborator call at a time, for renders of        *)
(* several requests that interleave.  A call in flight holds its node, its *)
(* context, its locals (c, content) and its position pc: the collaborator  *)
(* call it makes next.                                                     *)
(***************************************************************************)
NoChunk == [t |-> "none"]

Call(node, ctx) ==
    [pc |-> "get", node |-> node, ctx |-> ctx, c |-> NoChunk,
     content |-> PyNone, out |-> PyNone, log |-> << >>]

Finished(call, out, log) == [call EXCEPT !.pc = "done", !.out = out, !.log = log]

\* ChunkNode.render that marks the entry with '' while it renders the chunk
ChunkNodeRenderStep_Placeholder(call, store, table, zero_is_default) ==
    LET cache_key == CACHE_PREFIX \o call.node.key
        found == ChunkGet(table, call.node.key)
        t == int(call.node.cache_time)
    IN  CASE call.pc = "get" ->
                IF cache_get(store, cache_key) # PyNone
                THEN [call |-> Finished(call,
                                        Return(cache_get(store, cache_key).v),
                                        <<"cache.get">>),
                      cache |-> store]
                ELSE [call |-> [call EXCEPT !.pc = "lookup",
                                            !.log = <<"cache.get">>],
                      cache |-> store]
          [] call.pc = "lookup" ->
                IF found = {}
                THEN [call |-> Finished(call, Return(<< >>),
                                        call.log \o <<"Chunk.get">>),
                      cache |-> store]
                ELSE [call |-> [call EXCEPT !.pc = "render",
                                            !.c = CHOOSE c \in found : TRUE,
                                            !.log = @ \o <<"Chunk.get">>],
                      cache |-> cache_set(store, cache_key, << >>, 1, TRUE)]
          [] call.pc = "render" ->
                IF ~Truthy(GetRequest(call.ctx))
                THEN [call |-> Finished(call, Raise(ImproperlyConfigured),
                                        call.log),
                      cache |-> store]
                ELSE [call |-> [call EXCEPT !.pc = "set",
                                            !.content = PyStr(build_content(call.c)),
                                            !.log = @ \o <<"build_content">>],
                      cache |-> store]
          [] call.pc = "set" ->
                IF ~t.ok
                THEN [call |-> Finished(call, Raise(ValueError), call.log),
                      cache |-> store]
                ELSE [call |-> Finished(call, Return(call.content.v),
                                        call.log \o <<"cache.set">>),
                      cache |-> cache_set(store, cache_key, call.content.v, t.v,
                                          zero_is_default)]

\* the next collaborator call of ChunkNode.render and what follows it up to
\* the one after: cache.get, Chunk.objects.get, the request check and
\* build_content, int(self.cache_time) and cache.set
ChunkNodeRenderStep(call, store, table, zero_is_default) ==
    LET cache_key == CACHE_PREFIX \o call.node.key
        found == ChunkGet(table, call.node.key)
        t == int(call.node.cache_time)
    IN  CASE call.pc = "get" ->
                IF cache_get(store, cache_key) # PyNone
                THEN [call |-> Finished(call,
                                        Return(cache_get(store, cache_key).v),
                                        <<"cache.get">>),
                      cache |-> store]
                ELSE [call |-> [call EXCEPT !.pc = "lookup",
                                            !.log = <<"cache.get">>],
                      cache |-> store]
          [] call.pc = "lookup" ->
                IF found = {}
                THEN [call |-> Finished(call, Return(<< >>),
                                        call.log \o <<"Chunk.get">>),
                      cache |-> store]
                ELSE [call |-> [call EXCEPT !.pc = "render",
                                            !.c = CHOOSE c \in found : TRUE,
                                            !.log = @ \o <<"Chunk.get">>],
                      cache |-> store]
          [] call.pc = "render" ->
                IF ~Truthy(GetRequest(call.ctx))
                THEN [call |-> Finished(call, Raise(ImproperlyConfigured),
                                        call.log),
                      cache |-> store]
                ELSE [call |-> [call EXCEPT !.pc = "set",
                                            !.content = PyStr(build_content(call.c)),
                                            !.log = @ \o <<"build_content">>],
                      cache |-> store]
          [] call.pc = "set" ->
                IF ~t.ok
                THEN [call |-> Finished(call, Raise(ValueError), call.log),
                      cache |-> store]
                ELSE [call |-> Finished(call, Return(call.content.v),
                                        call.log \o <<"cache.set">>),
                      cache |-> cache_set(store, cache_key, call.content.v, t.v,
                                          zero_is_default)]

\* the requests that render at the same time
Procs == 1..NumCalls

\* {% chunk 'a' %} and {% chunk 'a' 1 %}
RaceDirectives ==
    {d \in ChunkDirectives :
        /\ Strip(d[2]) = TheKey
        /\ Len(d) = 3 => d[3] = <<"1">>}

\* a request starts rendering {% chunk ... %}
CallStart(p) ==
    /\ p \notin DOMAIN calls
    /\ \E tokens \in RaceDirectives, ctx \in RequestContexts :
        /\ do_get_chunk(tokens).ok
        /\ calls' = [q \in DOMAIN calls \cup {p} |->
                        IF q = p THEN Call(do_get_chunk(tokens).v, ctx)
                        ELSE calls[q]]
    /\ UNCHANGED <<chunks, inline, cache, context, last, written>>

\* the render of request p makes its next collaborator call
CallStep(p) ==
    /\ \E zero_is_default \in BOOLEAN :
        LET r == ChunkNodeRenderStep(calls[p], cache, chunks, zero_is_default)
        IN  /\ calls' = [calls EXCEPT ![p] = r.call]
            /\ cache' = r.cache
    /\ UNCHANGED <<chunks, inline, context, last, written>>

\* cache.get(cache_key)
CallGet(p) ==
    /\ p \in DOMAIN calls
    /\ calls[p].pc = "get"
    /\ CallStep(p)

\* Chunk.objects.get(key=self.key)
CallLookup(p) ==
    /\ p \in DOMAIN calls
    /\ calls[p].pc = "lookup"
    /\ CallStep(p)

\* the request check and c.build_content(request, context)
CallRender(p) ==
    /\ p \in DOMAIN calls
    /\ calls[p].pc = "render"
    /\ CallStep(p)

\* cache.set(cache_key, content, int(self.cache_time)) and the return
CallSet(p) ==
    /\ p \in DOMAIN calls
    /\ calls[p].pc = "set"
    /\ CallStep(p)

\* all the renders in flight have returned or raised: the requests end
CallsEnd ==
    /\ DOMAIN calls # {}
    /\ \A p \in DOMAIN calls : calls[p].pc = "done"
    /\ calls' = << >>
    /\ UNCHANGED <<chunks, inline, cache, context, last, written>>

\* the Chunk is created once, while no render is in flight, and then left alone
CreateChunk ==
    /\ calls = << >>
    /\ chunks = {}
    /\ \E c \in Contents : SaveChunk(TheKey, c)

NextRace ==
    \/ CreateChunk
    \/ Tick
    \/ \E p \in Procs : CallStart(p)
    \/ \E p \in Procs : CallGet(p)
    \/ \E p \in Procs : CallLookup(p)
    \/ \E p \in Procs : CallRender(p)
    \/ \E p \in Procs : CallSet(p)
    \/ CallsEnd

SpecRace == Init /\ [][NextRace]_vars

(***************************************************************************)
(* Properties.                                                             *)
(***************************************************************************)
\* a step that renders a node of class cls; last' holds the call
IsRender(cls) == last'.op = "render" /\ last'.node.cls = cls

\* the store with key set to an entry of value text that has t seconds left
WithEntry(store, key, text, t) ==
    [k \in DOMAIN store \cup {key} |->
        IF k = key THEN [value |-> text, left |-> t] ELSE store[k]]

Without(store, key) == [k \in DOMAIN store \ {key} |-> store[k]]

\* what a cache.set with timeout t may leave: an entry with t seconds left;
\* for t = 0 the backend's default timeout or nothing at all
AfterSet(store, key, text, t) ==
    IF t > 0 THEN {WithEntry(store, key, text, t)}
    ELSE {WithEntry(store, key, text, DefaultTimeout), Without(store, key)}

C1_Step ==
    IsRender("ChunkNode") =>
        LET node == last'.node
            key == CACHE_PREFIX \o node.key
            found == ChunkGet(chunks, node.key)
            t == int(node.cache_time)
            text == build_content(CHOOSE c \in found : TRUE)
        IN  /\ ( /\ key \notin DOMAIN cache
                 /\ found # {}
                 /\ Truthy(GetRequest(context))
                 /\ t.ok /\ t.v >= 0 ) =>
                    /\ last'.out = Return(text)
                    /\ last'.log = <<"cache.get", "Chunk.get", "build_content",
                                     "cache.set">>
                    /\ last'.set = SetCall(key, text, t.v)
                    /\ cache' \in AfterSet(cache, key, text, t.v)
            /\ key \in DOMAIN cache =>
                    /\ last'.out = Return(cache[key].value)
                    /\ last'.log = <<"cache.get">>
                    /\ cache' = cache

\* C1: with a request in the context, {% chunk k t %} for an existing Chunk k
\* and an integer t >= 0, rendered while the cache holds no entry for
\* CACHE_PREFIX + k, looks the Chunk up, renders it, returns the text and
\* sets it under CACHE_PREFIX + k with timeout t; rendered while the entry
\* lives, it returns the entry's text after the cache.get alone, with no
\* Chunk lookup, no render and no cache write.
C1_PopulateThenHit == [][C1_Step]_vars

\* C1: a {% chunk %} render answered from the cache entry an earlier render wrote
C1_Witness ==
    /\ last.op = "render"
    /\ last.node.cls = "ChunkNode"
    /\ last.log = <<"cache.get">>
    /\ last.out = Return(cache[CACHE_PREFIX \o last.node.key].value)
    /\ int(last.node.cache_time).ok

C2_Step ==
    /\ IsRender("ChunkNode") =>
        LET node == last'.node
            key == CACHE_PREFIX \o node.key
            found == ChunkGet(chunks, node.key)
            text == build_content(CHOOSE c \in found : TRUE)
        IN  /\ (key \notin DOMAIN cache /\ found = {}) =>
                    /\ last'.out = Return(<< >>)
                    /\ last'.set = NoSet
                    /\ cache' = cache
            /\ (key \notin DOMAIN cache /\ found # {}) =>
                    /\ last'.out.ok => last'.out.v = text
                    /\ ( /\ Truthy(GetRequest(context))
                         /\ int(node.cache_time).ok ) => last'.out.ok
    /\ \A k \in ChunkKeys :
        ( /\ CACHE_PREFIX \o k \notin DOMAIN cache
          /\ ~(IsRender("ChunkNode") /\ last'.node.key = k) ) =>
                CACHE_PREFIX \o k \notin DOMAIN cache'

\* C2: {% chunk k t %} rendered while no Chunk k exists and the cache holds
\* no entry for CACHE_PREFIX + k returns '' and leaves the cache as it was;
\* the entry then stays unset whatever happens (the Chunk being saved
\* included) until k is rendered again, and a render of k with the entry
\* unset and the Chunk existing returns the Chunk's rendered content (it
\* returns whenever there is a request and cache_time is an integer).
C2_NotFoundIsNotCached == [][C2_Step]_vars

\* C2: a {% chunk %} render that found no Chunk and returned ''
C2_Witness ==
    /\ last.op = "render"
    /\ last.node.cls = "ChunkNode"
    /\ last.log = <<"cache.get", "Chunk.get">>
    /\ last.out = Return(<< >>)
    /\ CACHE_PREFIX \o last.node.key \notin DOMAIN cache

InLog(call, log) == \E i \in 1..Len(log) : log[i] = call

\* a step that renders {% object_chunk %} with its owner variable bound
IsOwnerRender ==
    /\ IsRender("ObjChunkNode")
    /\ PyStr(last'.tokens[2]) \in DOMAIN context

\* in such a step: the owner, its cache key, the InlineChunk and the default
\* Chunk the stores hold for the call
StepOwner == context[PyStr(last'.tokens[2])].v
StepKey == chunk_item_cache_key(StepOwner, last'.node.key)
StepInline == InlineChunkGet(inline, StepOwner, last'.node.key)
StepDefault ==
    IF Len(last'.tokens) = 5 THEN ChunkGet(chunks, Strip(last'.tokens[5])) ELSE {}
StepReturns ==
    Truthy(GetRequest(context)) /\ int(last'.node.cache_time).ok

C3_OriginalStep ==
    (IsOwnerRender /\ StepInline # {} /\ last'.out.ok) =>
        last'.out.v = build_content(CHOOSE c \in StepInline : TRUE)

\* C3 as stated: whenever an InlineChunk exists for the owner and key at the
\* time of the call, a {% object_chunk %} render that returns returns the
\* rendered InlineChunk content.
C3_Original == [][C3_OriginalStep]_vars

C3_Step ==
    IsOwnerRender =>
        /\ (StepKey \notin DOMAIN cache /\ StepInline # {}) =>
            /\ ~InLog("Chunk.get", last'.log)
            /\ last'.out.ok =>
                last'.out.v = build_content(CHOOSE c \in StepInline : TRUE)
            /\ StepReturns => last'.out.ok
        /\ StepKey \in DOMAIN cache => last'.out = Return(cache[StepKey].value)
        /\ InLog("Chunk.get", last'.log) =>
                StepKey \notin DOMAIN cache /\ StepInline = {}

\* C3 (amended): on a cache miss, a {% object_chunk %} render for an owner and
\* key with an InlineChunk returns the rendered InlineChunk content without
\* looking any global Chunk up, whatever default_key is given; on a cache hit
\* it returns the cached text; the default Chunk is looked up only on a cache
\* miss with no matching InlineChunk.
C3_InlinePreferredOnMiss == [][C3_Step]_vars

\* C3: a render with a default_key naming an existing Chunk that returned the
\* different content of the owner's InlineChunk
C3_Witness ==
    /\ last.op = "render"
    /\ last.node.cls = "ObjChunkNode"
    /\ Len(last.tokens) = 5
    /\ PyStr(last.tokens[2]) \in DOMAIN context
    /\ \E c \in InlineChunkGet(inline, context[PyStr(last.tokens[2])].v,
                               last.node.key) :
        \E d \in ChunkGet(chunks, last.node.default_chunk.v) :
            /\ d.content # c.content
            /\ last.out = Return(build_content(c))
            /\ last.log = <<"cache.get", "InlineChunk.get", "build_content",
                            "cache.set">>

C4_Step ==
    ( /\ IsOwnerRender
      /\ StepKey \notin DOMAIN cache
      /\ StepInline = {}
      /\ StepDefault # {}
      /\ Truthy(GetRequest(context))
      /\ int(last'.node.cache_time).ok
      /\ int(last'.node.cache_time).v >= 0 ) =>
        LET text == build_content(CHOOSE c \in StepDefault : TRUE)
            t == int(last'.node.cache_time).v
        IN  /\ last'.out = Return(text)
            /\ last'.log = <<"cache.get", "InlineChunk.get", "Chunk.get",
                             "build_content", "cache.set">>
            /\ last'.set = SetCall(StepKey, text, t)
            /\ cache' \in AfterSet(cache, StepKey, text, t)

\* C4: with a request in the context, {% object_chunk obj k t d %} for an
\* owner with no InlineChunk k, an existing Chunk d and an integer t >= 0,
\* rendered on a cache miss, returns the rendered content of Chunk d and sets
\* it under the owner's cache key for k with timeout t.
C4_DefaultOnMiss == [][C4_Step]_vars

\* C4: a render that fell back to the default Chunk and cached its content
\* under the owner's key
C4_Witness ==
    /\ last.op = "render"
    /\ last.node.cls = "ObjChunkNode"
    /\ last.log = <<"cache.get", "InlineChunk.get", "Chunk.get", "build_content",
                    "cache.set">>
    /\ last.set.timeout > 0
    /\ last.set.key = chunk_item_cache_key(context[PyStr(last.tokens[2])].v,
                                           last.node.key)
    /\ cache[last.set.key].value = last.out.v
    /\ \E d \in ChunkGet(chunks, last.node.default_chunk.v) :
            last.out.v = build_content(d)

C5_OriginalStep ==
    (IsOwnerRender /\ StepInline = {} /\ StepDefault = {}) =>
        /\ last'.out = Return(<< >>)
        /\ last'.set = NoSet
        /\ cache' = cache

\* C5 as stated: whenever neither an InlineChunk nor the default Chunk exists,
\* a {% object_chunk %} render returns '' and writes nothing to the cache.
C5_Original == [][C5_OriginalStep]_vars

C5_Step ==
    /\ IsOwnerRender =>
        /\ (StepInline = {} /\ StepDefault = {}) =>
            /\ last'.set = NoSet
            /\ cache' = cache
            /\ StepKey \notin DOMAIN cache => last'.out = Return(<< >>)
        /\ ( /\ StepKey \notin DOMAIN cache
             /\ (StepInline # {} \/ StepDefault # {}) ) =>
            /\ last'.out.ok =>
                last'.out.v =
                    build_content(CHOOSE c \in (IF StepInline # {} THEN StepInline
                                                ELSE StepDefault) : TRUE)
            /\ StepReturns => last'.out.ok
    /\ \A o \in Owners, k \in InlineKeys :
        ( /\ chunk_item_cache_key(o, k) \notin DOMAIN cache
          /\ ~(IsOwnerRender /\ StepOwner = o /\ last'.node.key = k) ) =>
                chunk_item_cache_key(o, k) \notin DOMAIN cache'

\* C5 (amended): a {% object_chunk %} render for an owner and key with neither
\* an InlineChunk nor an existing default Chunk writes nothing to the cache,
\* and on a cache miss returns ''; the owner's entry for the key then stays
\* unset until the next render for that owner and key, which, a chunk having
\* been created, returns the rendered content of that chunk.
C5_NotFoundIsNotCached == [][C5_Step]_vars

\* C5: a render for a bound owner that found neither chunk and returned ''
C5_Witness ==
    /\ last.op = "render"
    /\ last.node.cls = "ObjChunkNode"
    /\ last.log = <<"cache.get", "InlineChunk.get", "Chunk.get">>
    /\ last.out = Return(<< >>)
    /\ cache = << >>

\* a step that renders {% object_chunks_list %} and gets as far as resolving
\* its owner: the target name is a quoted literal or a bound variable
IsListRender ==
    /\ IsRender("ObjChunksListNode")
    /\ IsQuoted(last'.tokens[3]) \/ PyStr(last'.tokens[3]) \in DOMAIN context

\* the name such a step binds under
StepTarget ==
    IF IsQuoted(last'.tokens[3]) THEN PyStr(Strip(last'.tokens[3]))
    ELSE context[PyStr(last'.tokens[3])]

C6_Step ==
    ~Truthy(GetRequest(context)) =>
        /\ ( /\ IsRender("ChunkNode")
             /\ CACHE_PREFIX \o last'.node.key \notin DOMAIN cache
             /\ ChunkGet(chunks, last'.node.key) # {} ) =>
                last'.out = Raise(ImproperlyConfigured)
        /\ ( /\ IsOwnerRender
             /\ StepKey \notin DOMAIN cache
             /\ (StepInline # {} \/ StepDefault # {}) ) =>
                last'.out = Raise(ImproperlyConfigured)
        /\ ( /\ IsListRender
             /\ PyStr(last'.tokens[2]) \in DOMAIN context ) =>
                last'.out = Raise(ImproperlyConfigured)

\* C6: with no truthy request in the context, a {% chunk %} or
\* {% object_chunk %} render that misses the cache and finds a chunk, and an
\* {% object_chunks_list %} render that resolves its owner, raise
\* ImproperlyConfigured.
C6_MissingRequestRaises == [][C6_Step]_vars

\* C6: an {% object_chunk %} render that found the default Chunk and raised
\* ImproperlyConfigured for want of a request
C6_Witness ==
    /\ last.op = "render"
    /\ last.node.cls = "ObjChunkNode"
    /\ last.log = <<"cache.get", "InlineChunk.get", "Chunk.get">>
    /\ last.out = Raise(ImproperlyConfigured)
    /\ ~Truthy(GetRequest(context))

\* C7 as stated: a render of any of the three directives either returns or
\* raises ImproperlyConfigured; no other error escapes it.
C7_OnlyConfigurationErrorEscapes ==
    last.op = "render" => (last.out.ok \/ last.out.exc = ImproperlyConfigured)

\* C8 as stated: a directive with a token count outside its bounds (chunk 2-3,
\* object_chunk 3-5, object_chunks_list exactly 3) makes its parse function
\* raise TemplateSyntaxError.
C8_TokenCountIsSyntaxError ==
    last.op = "parse" =>
        LET tag == last.tokens[1]
            n == Len(last.tokens)
        IN  ( \/ tag = TAG_CHUNK /\ n \notin 2..3
              \/ tag = TAG_OBJECT_CHUNK /\ n \notin 3..5
              \/ tag = TAG_LIST /\ n # 3 ) =>
                last.res = Raise(TemplateSyntaxError)

C9_Step ==
    ( /\ IsRender("ObjChunksListNode")
      /\ PyStr(last'.tokens[2]) \notin DOMAIN context ) =>
        /\ last'.out = Return(<< >>)
        /\ \E name \in DOMAIN context' :
                context' = Bind(context, name, PyDict(<< >>))

\* C9 as stated: an {% object_chunks_list %} render whose owner variable is
\* not bound binds an empty mapping under the target name and returns ''
\* without raising, with or without a request in the context.
C9_UnresolvedOwnerBindsEmpty == [][C9_Step]_vars

C10_Step ==
    ( /\ IsListRender
      /\ PyStr(last'.tokens[2]) \in DOMAIN context
      /\ Truthy(GetRequest(context)) ) =>
        /\ last'.out = Return(<< >>)
        /\ DOMAIN context' = DOMAIN context \cup {StepTarget}
        /\ context'[StepTarget] =
                PyDict(OwnerChunks(inline, context[PyStr(last'.tokens[2])].v))
        /\ \A n \in DOMAIN context \ {StepTarget} : context'[n] = context[n]

\* C10: with a request in the context and its owner variable bound,
\* {% object_chunks_list obj target %} binds the mapping obj.chunks returns
\* under the target name - the literal if target is a quoted string, the
\* value of the variable if it is a variable - and changes no other context
\* variable.
C10_BindsOwnerChunks == [][C10_Step]_vars

\* C10: a render that bound an owner's non-empty mapping under the name that
\* the variable nm holds
C10_Witness ==
    /\ last.op = "render"
    /\ last.node.cls = "ObjChunksListNode"
    /\ last.tokens[3] = NM
    /\ last.out = Return(<< >>)
    /\ last.log = <<"obj.chunks">>
    /\ \E n \in TargetNames :
        /\ context[PyStr(NM)] = PyStr(n)
        /\ PyStr(n) \in DOMAIN context
        /\ context[PyStr(n)].t = "dict"
        /\ DOMAIN context[PyStr(n)].v # {}

C11_Step ==
    IsRender("ObjChunksListNode") =>
        /\ cache' = cache
        /\ ~InLog("cache.get", last'.log)
        /\ ~InLog("cache.set", last'.log)
        /\ last'.set = NoSet

\* C11: an {% object_chunks_list %} render leaves the cache as it found it and
\* calls neither cache.get nor cache.set, whether its owner resolves, does not
\* resolve, or the context has no request.
C11_ListLeavesCache == [][C11_Step]_vars

\* C11: a render that bound a resolved owner's mapping while the cache held an
\* entry
C11_Witness ==
    /\ last.op = "render"
    /\ last.node.cls = "ObjChunksListNode"
    /\ last.log = <<"obj.chunks">>
    /\ last.out = Return(<< >>)
    /\ DOMAIN cache # {}

C12_Step ==
    ( /\ IsRender("ObjChunkNode")
      /\ PyStr(last'.tokens[2]) \notin DOMAIN context ) =>
        /\ last'.out = Return(<< >>)
        /\ last'.log = << >>
        /\ last'.set = NoSet
        /\ cache' = cache

\* C12: an {% object_chunk %} render whose owner variable is not bound in the
\* context returns '' without raising, and makes no cache.get, no cache.set,
\* no InlineChunk or Chunk lookup and no build_content call; the cache is left
\* as it was.
C12_UnresolvedOwnerIsSilent == [][C12_Step]_vars

\* C12: a render with the owner variable unbound that returned '' although the
\* default Chunk exists
C12_Witness ==
    /\ last.op = "render"
    /\ last.node.cls = "ObjChunkNode"
    /\ PyStr(last.tokens[2]) \notin DOMAIN context
    /\ last.out = Return(<< >>)
    /\ last.log = << >>
    /\ Len(last.tokens) = 5
    /\ ChunkGet(chunks, last.node.default_chunk.v) # {}
    /\ DOMAIN cache # {}

\* a token that starts and ends with the same quote character, the two
\* enclosing the key
WellQuoted(token) ==
    /\ Len(token) >= 2
    /\ token[1] \in {"'", "\""}
    /\ token[Len(token)] = token[1]

C13_Holds(tokens, res) ==
    LET tag == tokens[1]
        n == Len(tokens)
        key == IF tag = TAG_CHUNK THEN tokens[2] ELSE tokens[3]
    IN  /\ (tag = TAG_CHUNK /\ n \in 2..3) =>
            IF WellQuoted(key)
            THEN res.ok /\ res.v.key = SubSeq(key, 2, Len(key) - 1)
            ELSE res = Raise(TemplateSyntaxError)
        /\ (tag = TAG_OBJECT_CHUNK /\ n \in 3..5) =>
            IF WellQuoted(key) /\ (n = 5 => WellQuoted(tokens[5]))
            THEN res.ok =>
                    /\ res.v.key = SubSeq(key, 2, Len(key) - 1)
                    /\ n = 5 => res.v.default_chunk =
                                    PyStr(SubSeq(tokens[5], 2, Len(tokens[5]) - 1))
            ELSE res = Raise(TemplateSyntaxError)

\* C13 as stated: do_get_chunk and do_get_object_chunk, given a token count
\* within bounds, build a node only from a key (and, with 5 tokens, a
\* default_key) token of at least two characters that starts and ends with
\* the same quote character, passing it with the two quotes stripped; for any
\* other key or default_key token they raise TemplateSyntaxError.
C13_OnlyQuotedKeys ==
    last.op = "parse" => C13_Holds(last.tokens, last.res)

\* what a render answered from the entry under key does
HitOnly(key) ==
    /\ last'.out = Return(cache[key].value)
    /\ last'.log = <<"cache.get">>
    /\ last'.set = NoSet
    /\ cache' = cache

C14_Step ==
    /\ ( /\ IsRender("ChunkNode")
         /\ CACHE_PREFIX \o last'.node.key \in DOMAIN cache ) =>
            HitOnly(CACHE_PREFIX \o last'.node.key)
    /\ (IsOwnerRender /\ StepKey \in DOMAIN cache) => HitOnly(StepKey)

\* C14: a {% chunk %} or {% object_chunk %} render made while the cache holds
\* an entry for its cache key returns the entry's text after the cache.get
\* alone: no Chunk or InlineChunk lookup, no build_content, no cache.set (the
\* entry and the time it has left are unchanged, whatever the call's
\* cache_time), and no ImproperlyConfigured even with no request in the
\* context.
C14_HitDoesNothingElse == [][C14_Step]_vars

\* C14: an {% object_chunk %} render answered from the cache with no request
\* in the context and no chunk left in the stores
C14_Witness ==
    /\ last.op = "render"
    /\ last.node.cls = "ObjChunkNode"
    /\ last.log = <<"cache.get">>
    /\ last.out.ok
    /\ last.out.v # << >>
    /\ ~Truthy(GetRequest(context))
    /\ chunks = {}
    /\ inline = {}

\* the entry under key k is written in this step
Written(k) ==
    /\ k \in DOMAIN cache'
    /\ \/ k \notin DOMAIN cache
       \/ cache'[k].value # cache[k].value
       \/ cache'[k].left > cache[k].left

\* the chunks the stores hold for the call of this step
StepFound ==
    IF last'.node.cls = "ChunkNode" THEN ChunkGet(chunks, last'.node.key)
    ELSE IF StepInline # {} THEN StepInline ELSE StepDefault

C15_Step ==
    /\ \A k \in DOMAIN cache' :
        Written(k) =>
            /\ IsRender("ChunkNode") \/ IsOwnerRender
            /\ last'.out.ok
            /\ last'.out.v = cache'[k].value
            /\ InLog("build_content", last'.log)
            /\ last'.set.t = "set"
            /\ last'.set.key = k
            /\ last'.set.value = cache'[k].value
            /\ \E c \in StepFound : build_content(c) = cache'[k].value
    /\ ( /\ last'.op = "render"
         /\ \/ ~last'.out.ok
            \/ ~InLog("build_content", last'.log) ) =>
                /\ cache' = cache
                /\ last'.set = NoSet

C15_Inv ==
    \A k \in DOMAIN cache :
        cache[k].value \in {build_content([content |-> c]) : c \in Contents}

\* C15: every cache entry holds the render of a chunk's content, and an entry
\* is written only by a {% chunk %} or {% object_chunk %} render that found a
\* chunk in the store, rendered it and returned its text, which is the text
\* written; a render that raises (ImproperlyConfigured included) or returns
\* without having rendered (chunk not found, owner unresolved, cache hit)
\* leaves the cache as it was.
C15_OnlyRendersAreCached == [](C15_Inv) /\ [][C15_Step]_vars

\* C15: both a {% chunk %} entry and an {% object_chunk %} entry are cached,
\* the second just written by a render of the owner's InlineChunk
C15_Witness ==
    /\ last.op = "render"
    /\ last.node.cls = "ObjChunkNode"
    /\ last.set # NoSet
    /\ last.log = <<"cache.get", "InlineChunk.get", "build_content", "cache.set">>
    /\ last.set.key \in DOMAIN cache
    /\ CACHE_PREFIX \o TheKey \in DOMAIN cache
    /\ cache[last.set.key].value # cache[CACHE_PREFIX \o TheKey].value

\* a step that renders {% chunk %}, or {% object_chunk %} with its owner bound
IsKeyedRender == IsRender("ChunkNode") \/ IsOwnerRender

\* the cache key of such a step
StepCacheKey ==
    IF last'.node.cls = "ChunkNode" THEN CACHE_PREFIX \o last'.node.key
    ELSE StepKey

\* the seconds a backend keeps an entry set with timeout t, when it keeps it
Kept(t) == IF t > 0 THEN t ELSE DefaultTimeout

\* a render that misses the cache reads the store again and returns the
\* render of what the store holds now, or '' when it holds nothing
RereadsOnMiss ==
    (IsKeyedRender /\ StepCacheKey \notin DOMAIN cache) =>
        /\ SubSeq(last'.log, 1, 2) =
                <<"cache.get", IF last'.node.cls = "ChunkNode" THEN "Chunk.get"
                               ELSE "InlineChunk.get">>
        /\ last'.out.ok =>
                last'.out.v = IF StepFound = {} THEN << >>
                              ELSE build_content(CHOOSE c \in StepFound : TRUE)
        /\ (StepFound = {} \/ StepReturns) => last'.out.ok

C16_OriginalStep ==
    /\ (IsKeyedRender /\ StepCacheKey \in DOMAIN cache) =>
            /\ last'.out = Return(cache[StepCacheKey].value)
            /\ written[StepCacheKey].age <= written[StepCacheKey].timeout
    /\ RereadsOnMiss

\* C16 as stated: a text that a {% chunk %} or {% object_chunk %} render
\* returns from the cache was set at most cache_time seconds earlier, by a
\* call with that cache_time; a render that finds no live entry reads the
\* store again and returns the render of the chunk's current content, or ''
\* if there is no chunk.
C16_Original == [][C16_OriginalStep]_vars

C16_Step ==
    /\ (IsKeyedRender /\ StepCacheKey \in DOMAIN cache) =>
            /\ last'.out = Return(cache[StepCacheKey].value)
            /\ written[StepCacheKey].age <= Kept(written[StepCacheKey].timeout)
    /\ (last'.op = "render" /\ last'.set # NoSet) =>
            last'.set.timeout = int(last'.node.cache_time).v
    /\ RereadsOnMiss

C16_Inv ==
    /\ DOMAIN written = DOMAIN cache
    /\ \A k \in DOMAIN cache : written[k].age < Kept(written[k].timeout)

\* C16 (amended): a text returned from the cache was set at most cache_time
\* seconds earlier when the populating call's cache_time is positive, and at
\* most the backend's default timeout earlier when it is 0 (an entry set with
\* timeout 0 is kept for the default timeout or not at all); no entry outlives
\* that time, cache.set is called with the call's cache_time, and a render
\* that finds no live entry reads the store again and returns the render of
\* the chunk's current content, or '' if there is no chunk.
C16_StalenessBounded == [](C16_Inv) /\ [][C16_Step]_vars

\* C16: a render answered with a text set a second earlier, the chunk having
\* been edited since
C16_Witness ==
    /\ last.op = "render"
    /\ last.node.cls = "ChunkNode"
    /\ last.log = <<"cache.get">>
    /\ written[CACHE_PREFIX \o last.node.key].age = 1
    /\ written[CACHE_PREFIX \o last.node.key].timeout = 2
    /\ \E c \in ChunkGet(chunks, last.node.key) : build_content(c) # last.out.v

\* a call within the contract of resolve_global: a request in its context and
\* an integer cache_time
InContract(call) == Truthy(GetRequest(call.ctx)) /\ int(call.node.cache_time).ok

\* the rendered content of the Chunk the calls are for
RaceText == build_content(CHOOSE c \in ChunkGet(chunks, TheKey) : TRUE)

\* the step in which the last of two or more calls in flight finishes
LastFinishes ==
    /\ Cardinality(DOMAIN calls') >= 2
    /\ \A p \in DOMAIN calls' : calls'[p].pc = "done"
    /\ \E p \in DOMAIN calls : calls[p].pc # "done"

\* the call that takes the step
Stepping == CHOOSE p \in DOMAIN calls : calls'[p] # calls[p]

C17_Returns ==
    \A p \in DOMAIN calls' :
        ( /\ ChunkGet(chunks, TheKey) # {}
          /\ InContract(calls'[p])
          /\ calls'[p].pc = "done" ) => calls'[p].out = Return(RaceText)

C17_EntryIntact ==
    ( /\ ChunkGet(chunks, TheKey) # {}
      /\ CACHE_PREFIX \o TheKey \in DOMAIN cache' ) =>
            cache'[CACHE_PREFIX \o TheKey].value = RaceText

C17_OriginalStep ==
    /\ C17_Returns
    /\ C17_EntryIntact
    /\ ( /\ ChunkGet(chunks, TheKey) # {}
         /\ LastFinishes
         /\ \A p \in DOMAIN calls' : InContract(calls'[p]) ) =>
            CACHE_PREFIX \o TheKey \in DOMAIN cache'

\* C17 as stated: however two or more {% chunk k t %} renders for an existing,
\* unmodified Chunk k interleave their cache.get, Chunk lookup, build_content
\* and cache.set, every call returns the rendered content of the Chunk, and
\* when the last of them finishes the cache holds an entry for
\* CACHE_PREFIX + k with that content.
C17_Original == [][C17_OriginalStep]_vars

C17_Step ==
    /\ C17_Returns
    /\ C17_EntryIntact
    /\ ( /\ ChunkGet(chunks, TheKey) # {}
         /\ LastFinishes
         /\ \A p \in DOMAIN calls' : InContract(calls'[p]) ) =>
            \/ CACHE_PREFIX \o TheKey \in DOMAIN cache'
            \/ /\ InLog("cache.set", calls'[Stepping].log)
               /\ int(calls'[Stepping].node.cache_time).v = 0

\* C17 (amended): however two or more {% chunk k t %} renders for an existing,
\* unmodified Chunk k interleave, every call with a request in its context
\* and an integer cache_time returns the rendered content of the Chunk, no
\* entry for CACHE_PREFIX + k ever holds anything else, and when the last of
\* them finishes the cache holds the entry, unless that last call set it with
\* cache_time 0, which the backend may not keep.
C17_RacesAreBenign == [][C17_Step]_vars

\* C17: two calls missed the cache together, both rendered and both set the
\* entry, which holds the rendered content
C17_Witness ==
    /\ Cardinality(DOMAIN calls) >= 2
    /\ CACHE_PREFIX \o TheKey \in DOMAIN cache
    /\ \A p \in DOMAIN calls :
        /\ calls[p].pc = "done"
        /\ calls[p].log = <<"cache.get", "Chunk.get", "build_content", "cache.set">>
        /\ calls[p].out = Return(cache[CACHE_PREFIX \o TheKey].value)

\* while the owner's entry for a key lives, every {% object_chunk %} directive
\* for that key, whatever its cache_time and default_key, renders to the
\* entry's text, read from the cache and nothing else
C18_Inv ==
    \A d \in ObjectChunkDirectives, zero_is_default \in BOOLEAN :
        LET node == do_get_object_chunk(d).v
            key == chunk_item_cache_key(context[PyStr(d[2])].v, node.key)
        IN  ( /\ PyStr(d[2]) \in DOMAIN context
              /\ key \in DOMAIN cache ) =>
                ObjChunkNodeRender(node, context, cache, chunks, inline,
                                   zero_is_default)
                    = Outcome(Return(cache[key].value), <<"cache.get">>, NoSet,
                              cache)

\* an {% object_chunk %} render sets no entry but the one under the owner's
\* key for its key
C18_Step ==
    (IsOwnerRender /\ last'.set # NoSet) =>
        /\ last'.set.key = StepKey
        /\ \A k \in DOMAIN cache' \ {StepKey} :
                k \in DOMAIN cache /\ cache'[k] = cache[k]

\* C18: {% object_chunk obj k t d %} caches its render under the owner's key
\* for k alone, whichever of the InlineChunk and the default Chunk d supplied
\* the content; while that entry lives, every {% object_chunk obj k t' d' %}
\* render returns the entry's text, for any cache_time t' and any default_key
\* d', whatever InlineChunk or Chunk has been created, edited or deleted since.
C18_KeyedByOwnerAndKey == [](C18_Inv) /\ [][C18_Step]_vars

\* C18: a render with a default_key naming no Chunk, answered with a text the
\* cache holds although the owner now has an InlineChunk with other content
C18_Witness ==
    /\ last.op = "render"
    /\ last.node.cls = "ObjChunkNode"
    /\ last.log = <<"cache.get">>
    /\ Len(last.tokens) = 5
    /\ ChunkGet(chunks, last.node.default_chunk.v) = {}
    /\ PyStr(last.tokens[2]) \in DOMAIN context
    /\ \E c \in InlineChunkGet(inline, context[PyStr(last.tokens[2])].v,
                               last.node.key) :
            build_content(c) # last.out.v

\* the context of this step with a request added to it
WithRequest == Bind(context, REQUEST, PyRequest)

\* the render of this step's node made again, after the step, by a request
\* whose context has the request
Retry(zero_is_default) ==
    IF last'.node.cls = "ChunkNode"
    THEN ChunkNodeRender(last'.node, WithRequest, cache', chunks,
                         zero_is_default)
    ELSE ObjChunkNodeRender(last'.node, WithRequest, cache', chunks, inline,
                            zero_is_default)

C19_Step ==
    (IsKeyedRender /\ last'.out = Raise(ImproperlyConfigured)) =>
        /\ cache' = cache
        /\ last'.set = NoSet
        /\ StepCacheKey \notin DOMAIN cache'
        /\ StepFound # {}
        /\ ~InLog("build_content", last'.log)
        /\ ~InLog("cache.set", last'.log)
        /\ last'.log[Len(last'.log)] \in {"Chunk.get", "InlineChunk.get"}
        /\ \A zero_is_default \in BOOLEAN :
            /\ InLog("build_content", Retry(zero_is_default).log)
            /\ int(last'.node.cache_time).ok =>
                /\ Retry(zero_is_default).out =
                        Return(build_content(CHOOSE c \in StepFound : TRUE))
                /\ Retry(zero_is_default).set =
                        SetCall(StepCacheKey,
                                build_content(CHOOSE c \in StepFound : TRUE),
                                int(last'.node.cache_time).v)

\* C19: a {% chunk %} or {% object_chunk %} render that raises
\* ImproperlyConfigured has found its chunk and has neither rendered it nor
\* written the cache, which it leaves exactly as it was, without an entry for
\* its key; the same directive rendered next with a request in the context
\* misses the cache, renders the chunk, returns its text and sets the entry.
C19_ConfigurationErrorLeavesCache == [][C19_Step]_vars

\* C19: a {% chunk %} render that raised ImproperlyConfigured while the cache
\* held another entry, and left no entry for its own key
C19_Witness ==
    /\ last.op = "render"
    /\ last.node.cls = "ChunkNode"
    /\ last.out = Raise(ImproperlyConfigured)
    /\ last.log = <<"cache.get", "Chunk.get">>
    /\ DOMAIN cache # {}
    /\ CACHE_PREFIX \o last.node.key \notin DOMAIN cache

====
